---------------------------- MODULE Spec2Model ----------------------------
(***************************************************************************)
(* Model of employ-anniversary-summary.py: a Streamlit page that reads an  *)
(* uploaded roster, keeps the employees whose service anniversary falls in *)
(* the selected month, and offers a filtered roster and a per-anniversary  *)
(* summary.                                                                *)
(*                                                                         *)
(* Column names and cell values of the roster are Chinese in the source;   *)
(* the module's strings stand for them as follows.                         *)
(*   "hire_date"    入职日期        "tenure_start" 司龄开始日期            *)
(*   "org3"         三级组织        "org4"         四级组织                *)
(*   "cat2"         员工二级类别    "cat1"         员工一级类别            *)
(*   "name"         姓名            "alias"        花名                    *)
(*   "emp_type"     员工类型        "anchor"       实际司龄日期            *)
(*   "month"        入职月份        "years"        周年数                  *)
(*   "remark"       备注            "info"         人员信息                *)
(*   "label"        周年标签                                               *)
(*   "Finance Center" 财务中心      "License Support Dept" 证照支持部      *)
(*   "formal employee" 正式员工     "outsourced"   外包                    *)
(*   "internal transfer" 活水       "watch: outsourced" 注意外包人员       *)
(*   "<sep>"        、              "<anniv>"      周年                    *)
(*                                                                         *)
(* A date keeps its year and month only: the code reads nothing else of it *)
(* (.dt.month, .dt.year).  None is the empty tuple and a value v that may  *)
(* be None is <<v>>; NaN in a numeric column is the empty tuple likewise.  *)
(***************************************************************************)
EXTENDS Integers, Sequences, FiniteSets

VARIABLES
    session_state,   \* st.session_state: the seven keys of init_session
    uploaded_file,   \* the file_uploader widget's value (None or a table)
    selected_year,   \* the year selectbox
    selected_month   \* the month selectbox

vars == <<session_state, uploaded_file, selected_year, selected_month>>

None == <<>>
Some(v) == <<v>>
NaN == <<>>
Num(n) == <<n>>

---------------------------------------------------------------------------
(* Bounds of the model.                                                    *)

\* Longest roster that is enumerated row by row.
MaxRows == 3
\* datetime.now().year when the page runs.
CurrentYear == 2025

---------------------------------------------------------------------------
(* Cells.                                                                  *)

\* An empty spreadsheet cell (read_excel gives NaN).
Null == "<null>"

\* A spreadsheet date cell, a text cell that reads as a date, a text cell
\* that does not, and an empty date cell.
DateCell(y, m) == [kind |-> "date", year |-> y, month |-> m]
TextDateCell(y, m) == [kind |-> "text", year |-> y, month |-> m]
BadDateCell == [kind |-> "text", year |-> 0, month |-> 0]
NullDateCell == [kind |-> "null", year |-> 0, month |-> 0]

\* What pd.to_datetime makes of a cell.
Timestamp(y, m) == [kind |-> "ts", year |-> y, month |-> m]
NaT == [kind |-> "NaT", year |-> 0, month |-> 0]

\* pd.to_datetime raises on this cell (errors='raise').
Unparseable(cell) == cell.kind = "text" /\ cell.month = 0

\* pd.to_datetime(cell, errors='coerce'); with errors='raise' it is applied
\* only where Unparseable is false.
to_datetime(cell) ==
    IF cell.kind = "null" \/ Unparseable(cell)
    THEN NaT
    ELSE Timestamp(cell.year, cell.month)

\* pd.notna on a parsed date.
notna(ts) == ts.kind # "NaT"

\* Series.dt.month and Series.dt.year: NaN on NaT.
dt_month(ts) == IF notna(ts) THEN Num(ts.month) ELSE NaN
dt_year(ts) == IF notna(ts) THEN Num(ts.year) ELSE NaN

---------------------------------------------------------------------------
(* Rows and tables.  A table is [cols, rows]: the set of its column names  *)
(* and the sequence of its rows, each a function from cols.                *)

SetCol(row, c, v) ==
    [k \in DOMAIN row \cup {c} |-> IF k = c THEN v ELSE row[k]]

\* pd.read_excel: the table's rows under a RangeIndex (here from 1).
read_excel(file) ==
    [cols |-> file.cols,
     rows |-> [i \in 1..Len(file.rows) |-> SetCol(file.rows[i], "index", i)]]

---------------------------------------------------------------------------
(* init_session.                                                           *)

init_session ==
    [uploaded_file |-> None,
     filtered_df |-> None,
     result_df |-> None,
     error_msg |-> None,
     processed |-> FALSE,
     special_exclusions |-> None,
     livewater_employees |-> None]

---------------------------------------------------------------------------
(* process_dates and calculate_metrics.                                    *)

\* ActualDate as it would be were the override never read.
ActualDate_hire_only(hire, tenure) == hire

\* np.where(tenure_start.notna(), tenure_start, hire_date), on parsed dates.
ActualDate(hire, tenure) == IF notna(tenure) THEN tenure ELSE hire

\* One row of process_dates: both date columns are overwritten by their
\* parsed values and the anchor column is added.
process_dates_row(row) ==
    LET hire == to_datetime(row.hire_date)
        tenure == to_datetime(row.tenure_start)
        r1 == [row EXCEPT !.hire_date = hire, !.tenure_start = tenure]
    IN  SetCol(r1, "anchor", ActualDate(hire, tenure))

process_dates(rows) == [i \in 1..Len(rows) |-> process_dates_row(rows[i])]

\* pd.to_datetime(df['入职日期']) raises.
process_dates_raises(rows) ==
    \E i \in 1..Len(rows) : Unparseable(rows[i].hire_date)

\* current_year - year, NaN staying NaN.
YearsSince(current_year, y) ==
    IF y = NaN THEN NaN ELSE Num(current_year - y[1])

calculate_metrics_row(row, current_year) ==
    SetCol(SetCol(row, "month", dt_month(row.anchor)),
           "years", YearsSince(current_year, dt_year(row.anchor)))

calculate_metrics(rows, current_year, current_month) ==
    [i \in 1..Len(rows) |-> calculate_metrics_row(rows[i], current_year)]

---------------------------------------------------------------------------
(* process_data.                                                           *)

required_columns ==
    {"hire_date", "org3", "org4", "cat2", "cat1", "tenure_start"}

\* The messages str(e) that process_data and the page record: what the
\* message says and the column names it holds.
SchemaError(missing) == [text |-> "missing key fields", names |-> missing]
DateParseError == [text |-> "unparseable date", names |-> {}]
KeyError(c) == [text |-> "KeyError", names |-> {c}]
SetFrameError == [text |-> "cannot set a frame as one column", names |-> {"info"}]
NoFileError == [text |-> "upload a data file first", names |-> {}]

\* exclusion_mask as it would be without the department carve-out.
exclusion_mask_without_carveout(row, current_month) ==
    /\ row.month = Num(current_month)
    /\ row.cat2 = "formal employee"

\* The row mask of the selection step.
exclusion_mask(row, current_month) ==
    /\ row.month = Num(current_month)
    /\ ~(row.org3 = "Finance Center" /\ row.org4 = "License Support Dept")
    /\ row.cat2 = "formal employee"

\* years_mask as it would be were the cut at 0.
years_mask_from_zero(row) == row.years # NaN /\ row.years[1] >= 0

\* filtered_df['周年数'] >= 1: false on NaN.
years_mask(row) == row.years # NaN /\ row.years[1] >= 1

\* The remark column.
remark(row) == IF row.cat1 = "outsourced" THEN "watch: outsourced" ELSE ""

\* Text cells that str.strip() empties.
BlankStrings == {"", " ", "  "}

\* format_info: the display label, as the sequence of its pieces.
format_info(row) ==
    LET base == <<row.org3, "-", row.name>>
    IN  IF row.alias # Null /\ row.alias \notin BlankStrings
        THEN base \o <<"(", row.alias, ")">>
        ELSE base

\* The columns format_info reads that the table lacks, in the order it
\* reads them.
format_info_missing(cols) ==
    IF "name" \notin cols THEN <<"name">>
    ELSE IF "alias" \notin cols THEN <<"alias">>
    ELSE <<>>

\* '、'.join(labels): the pieces of the labels with the separator between.
RECURSIVE join(_)
join(labels) ==
    IF labels = <<>> THEN <<>>
    ELSE IF Len(labels) = 1 THEN Head(labels)
    ELSE Head(labels) \o <<"<sep>">> \o join(Tail(labels))

\* sort_values('周年数', ascending=False) of the group keys.
RECURSIVE sort_descending(_)
sort_descending(keys) ==
    IF keys = {} THEN <<>>
    ELSE LET top == CHOOSE k \in keys : \A j \in keys : j <= k
         IN  <<top>> \o sort_descending(keys \ {top})

\* The key a row is grouped under.
group_key(row) == row.years[1]

\* group_labels as it would be were every row put in every group.
group_labels_of_all(rows, key) == [i \in 1..Len(rows) |-> rows[i].info]

\* The labels of one group, in row order.
group_labels(rows, key) ==
    LET members == SelectSeq(rows, LAMBDA r : group_key(r) = key)
    IN  [i \in 1..Len(members) |-> members[i].info]

\* astype(str) of the years column: the column is float64 when the anchor
\* column holds a NaT anywhere in the table, int64 otherwise.
years_as_str(key, is_float) == <<key, IF is_float THEN ".0" ELSE "">>

\* groupby('周年数').agg(join).sort_values(descending), with the label column.
summarize(rows, is_float) ==
    LET keys == sort_descending({group_key(rows[i]) : i \in 1..Len(rows)})
    IN  [g \in 1..Len(keys) |->
            [years |-> Num(keys[g]),
             label |-> years_as_str(keys[g], is_float) \o <<"<anniv>">>,
             info |-> join(group_labels(rows, keys[g]))]]

\* The names of the rows whose emp_type is "internal transfer".
livewater_names(rows) ==
    LET livewater == SelectSeq(rows, LAMBDA r : r.emp_type = "internal transfer")
    IN  [i \in 1..Len(livewater) |-> livewater[i].name]

\* The except branch: the message is recorded and (None, None) returned.
Failed(ss, msg) ==
    [filtered_df |-> None, result_df |-> None,
     st |-> [ss EXCEPT !.error_msg = Some(msg)]]

\* special_exclusions as it would be were it counted after the years cut.
special_exclusions_after_cut(df, masked) ==
    Len(df) - Len(SelectSeq(masked, years_mask))

\* special_exclusions as the code counts it.
special_exclusions_count(df, masked) == Len(df) - Len(masked)

\* The rows that pass the mask and then the years cut, with their remarks.
select_rows(df, current_month) ==
    LET masked == SelectSeq(df, LAMBDA r : exclusion_mask(r, current_month))
        kept == SelectSeq(masked, years_mask)
    IN  [masked |-> masked,
         kept |-> [i \in 1..Len(kept) |->
                      SetCol(kept[i], "remark", remark(kept[i]))]]

\* From the selection on: the session keys written, then the labels and
\* the summary.  Reading a column the table lacks raises KeyError; with no
\* row kept, format_info is probed on a blank row, its KeyError is
\* swallowed by DataFrame.apply, which then returns a frame, and setting
\* that frame as the info column raises.
finish(ss, cols, df, current_month) ==
    LET sel == select_rows(df, current_month)
        ss1 == [ss EXCEPT !.special_exclusions =
                              Some(special_exclusions_count(df, sel.masked))]
        ss2 == IF "emp_type" \in cols
               THEN [ss1 EXCEPT !.livewater_employees =
                                    Some(livewater_names(sel.kept))]
               ELSE ss1
        missing == format_info_missing(cols)
        is_float == \E i \in 1..Len(df) : df[i].years = NaN
        labelled == [i \in 1..Len(sel.kept) |->
                        SetCol(sel.kept[i], "info", format_info(sel.kept[i]))]
    IN  IF "emp_type" \in cols /\ "name" \notin cols
        THEN Failed(ss1, KeyError("name"))
        ELSE IF missing # <<>>
        THEN Failed(ss2, IF sel.kept # <<>>
                         THEN KeyError(missing[1])
                         ELSE SetFrameError)
        ELSE [filtered_df |-> Some(labelled),
              result_df |-> Some(summarize(labelled, is_float)),
              st |-> ss2]

process_data(ss, file, current_year, current_month) ==
    LET df == read_excel(file)
        missing == required_columns \ df.cols
    IN  IF missing # {}
        THEN Failed(ss, SchemaError(missing))
        ELSE IF process_dates_raises(df.rows)
        THEN Failed(ss, DateParseError)
        ELSE finish(ss, df.cols,
                    calculate_metrics(process_dates(df.rows),
                                      current_year, current_month),
                    current_month)

---------------------------------------------------------------------------
(* The page: the widgets, the two buttons and what is displayed.           *)

\* range(2021, datetime.now().year + 1)
FirstYear == 2021
YearOptions == FirstYear..CurrentYear
\* range(1, 13)
MonthOptions == 1..12

\* "开始分析": without a file only the message is recorded; with one, the
\* two tables process_data returns are stored and processed is set.
analyze(ss, file, year, month) ==
    IF file = None
    THEN [ss EXCEPT !.error_msg = Some(NoFileError)]
    ELSE LET r == process_data(ss, file[1], year, month)
         IN  [r.st EXCEPT !.filtered_df = r.filtered_df,
                          !.result_df = r.result_df,
                          !.processed = TRUE]

\* "重新开始": every key is deleted and init_session runs again.
reset(ss) == init_session

\* The result section (success message, downloads, advisory lines).
ShowResults(ss) == ss.processed /\ ss.filtered_df # None
\* The st.error line.
ShowError(ss) == ss.error_msg # None
\* The advisory line naming the internal-transfer employees.
ShownLivewater(ss) ==
    IF ss.livewater_employees = None THEN <<>> ELSE ss.livewater_employees[1]

---------------------------------------------------------------------------
(* Rosters.                                                                *)

AllColumns == required_columns \cup {"name", "alias", "emp_type"}

Row(hire, tenure, org3, org4, cat2, cat1, name, alias, emp_type) ==
    [hire_date |-> hire, tenure_start |-> tenure, org3 |-> org3,
     org4 |-> org4, cat2 |-> cat2, cat1 |-> cat1, name |-> name,
     alias |-> alias, emp_type |-> emp_type]

\* The table with the given rows, without the columns in `missing`.
Table(rows, missing) ==
    [cols |-> AllColumns \ missing,
     rows |-> [i \in 1..Len(rows) |->
                  [c \in AllColumns \ missing |-> rows[i][c]]]]

\* Sequences over S of length at most n.
RECURSIVE SeqsUpTo(_, _)
SeqsUpTo(S, n) ==
    IF n = 0 THEN {<<>>}
    ELSE LET shorter == SeqsUpTo(S, n - 1)
         IN  shorter \cup {Append(q, x) : q \in shorter, x \in S}

\* One-row rosters that vary what the selection reads.
HireCells ==
    {NullDateCell, BadDateCell, TextDateCell(2019, 3), DateCell(2010, 1),
     DateCell(2019, 3), DateCell(2024, 3), DateCell(2025, 3)}
TenureCells ==
    {NullDateCell, BadDateCell, DateCell(2010, 1), DateCell(2023, 3),
     DateCell(2025, 3)}
SelectionRows ==
    {Row(h, t, o3, o4, c2, "regular", "Zhang San", Null, "regular") :
        h \in HireCells, t \in TenureCells,
        o3 \in {"Finance Center", "Tech Center"},
        o4 \in {"License Support Dept", "R&D Dept"},
        c2 \in {"formal employee", "intern"}}

\* One-row rosters that vary what the labels and the advisories read, with
\* any of the optional or required columns missing.
LabelRows ==
    {Row(DateCell(2019, 3), NullDateCell, "Tech Center", "R&D Dept",
         "formal employee", c1, n, a, ty) :
        c1 \in {"outsourced", "regular"}, n \in {"Zhang San", "Li Si"},
        a \in {Null, " ", "Hua"}, ty \in {"internal transfer", "regular"}}
MissingSets == SUBSET {"org4", "name", "alias", "emp_type", "tenure_start"}

\* Rosters of several rows: employees of different anniversaries, one with
\* no date at all, one of the carved-out department.
GroupRows ==
    {Row(DateCell(y, 3), NullDateCell, "Tech Center", "R&D Dept",
         "formal employee", "regular", n[1], Null, n[2]) :
        y \in {2019, 2023, 2025},
        n \in {<<"Zhang San", "regular">>, <<"Li Si", "internal transfer">>}}
    \cup {Row(NullDateCell, NullDateCell, "Tech Center", "R&D Dept",
              "formal employee", "regular", "Wang Wu", Null, "regular"),
          Row(DateCell(2019, 3), NullDateCell, "Finance Center",
              "License Support Dept", "formal employee", "regular",
              "Zhao Liu", "Liu", "internal transfer")}

Tables ==
    {Table(<<r>>, {}) : r \in SelectionRows}
    \cup {Table(q, ms) : q \in SeqsUpTo(LabelRows, 1), ms \in MissingSets}
    \cup {Table(q, ms) : q \in SeqsUpTo(GroupRows, MaxRows),
                         ms \in {{}, {"emp_type"}}}

\* The reference years and months the rosters are analysed for.
DataYears == {CurrentYear - 1, CurrentYear}
DataMonths == {1, 3}

\* The rosters uploaded in a session of the page.
LiSi ==
    Row(DateCell(2019, 3), NullDateCell, "Tech Center", "R&D Dept",
        "formal employee", "regular", "Li Si", Null, "internal transfer")
ZhangSan ==
    Row(DateCell(2010, 1), DateCell(2023, 3), "Tech Center", "R&D Dept",
        "formal employee", "outsourced", "Zhang San", "Hua", "regular")
BadZhang == [ZhangSan EXCEPT !.hire_date = BadDateCell]
PageTables ==
    {Table(<<LiSi, ZhangSan>>, {}),
     Table(<<ZhangSan>>, {"emp_type"}),
     Table(<<LiSi>>, {"org4"}),
     Table(<<BadZhang>>, {})}

\* Sessions a roster can be analysed in: a fresh one, and one in which an
\* analysis succeeded and a later one failed.
StaleSession ==
    analyze(analyze(init_session, Some(Table(<<LiSi, ZhangSan>>, {})),
                    CurrentYear, 3),
            Some(Table(<<LiSi>>, {"org4"})), CurrentYear, 3)
PriorSessions == {init_session, StaleSession}

---------------------------------------------------------------------------
(* Actions.                                                                *)

Upload ==
    /\ \E t \in PageTables : uploaded_file' = Some(t)
    /\ UNCHANGED <<session_state, selected_year, selected_month>>

RemoveFile ==
    /\ uploaded_file # None
    /\ uploaded_file' = None
    /\ UNCHANGED <<session_state, selected_year, selected_month>>

SelectYear ==
    /\ \E y \in YearOptions : selected_year' = y
    /\ UNCHANGED <<session_state, uploaded_file, selected_month>>

SelectMonth ==
    /\ \E m \in MonthOptions : selected_month' = m
    /\ UNCHANGED <<session_state, uploaded_file, selected_year>>

ClickAnalyze ==
    /\ session_state' =
           analyze(session_state, uploaded_file, selected_year, selected_month)
    /\ UNCHANGED <<uploaded_file, selected_year, selected_month>>

ClickReset ==
    /\ session_state' = reset(session_state)
    /\ UNCHANGED <<uploaded_file, selected_year, selected_month>>

\* A session of the page.
Init ==
    /\ session_state = init_session
    /\ uploaded_file = None
    /\ selected_year = CurrentYear
    /\ selected_month = 1

Next ==
    \/ Upload
    \/ RemoveFile
    \/ SelectYear
    \/ SelectMonth
    \/ ClickAnalyze
    \/ ClickReset

Spec == Init /\ [][Next]_vars

\* One analysis of one roster.
DataInit ==
    /\ session_state \in PriorSessions
    /\ uploaded_file \in {Some(t) : t \in Tables}
    /\ selected_year \in DataYears
    /\ selected_month \in DataMonths

DataNext == ClickAnalyze

DataSpec == DataInit /\ [][DataNext]_vars

---------------------------------------------------------------------------
(* The vocabulary of the claims, stated on the uploaded roster itself.     *)

\* The roster under analysis and the tables the last analysis returned.
Roster == uploaded_file[1]
Returned == session_state.filtered_df # None
Filtered == session_state.filtered_df[1]
Summary == session_state.result_df[1]
FilteredIndexes == {Filtered[k].index : k \in 1..Len(Filtered)}

\* A cell that holds a calendar date.
IsDate(cell) == cell.kind = "date" \/ (cell.kind = "text" /\ cell.month # 0)

\* The anchor date of a roster row: the tenure-start override when it is a
\* date, the hire date otherwise.
AnchorCell(src) ==
    IF IsDate(src.tenure_start) THEN src.tenure_start ELSE src.hire_date

\* The three inclusion conditions, for the reference month.
Included(src, month) ==
    /\ IsDate(AnchorCell(src))
    /\ AnchorCell(src).month = month
    /\ ~(src.org3 = "Finance Center" /\ src.org4 = "License Support Dept")
    /\ src.cat2 = "formal employee"

AnniversaryCount(src, year) == year - AnchorCell(src).year

\* The roster rows that are to be reported.
Reportable(file, year, month) ==
    {i \in 1..Len(file.rows) :
        /\ Included(file.rows[i], month)
        /\ AnniversaryCount(file.rows[i], year) >= 1}

\* The roster rows that meet the inclusion conditions.
Passing(file, month) ==
    {i \in 1..Len(file.rows) : Included(file.rows[i], month)}

\* The labels of a joined-names cell.
RECURSIVE SplitCell(_)
SplitCell(cell) ==
    IF \A k \in 1..Len(cell) : cell[k] # "<sep>"
    THEN <<cell>>
    ELSE LET k == CHOOSE j \in 1..Len(cell) :
                      cell[j] = "<sep>" /\ \A h \in 1..(j - 1) : cell[h] # "<sep>"
         IN  <<SubSeq(cell, 1, k - 1)>> \o SplitCell(SubSeq(cell, k + 1, Len(cell)))

RECURSIVE SumGroupSizes(_)
SumGroupSizes(rows) ==
    IF rows = <<>> THEN 0
    ELSE Len(SplitCell(Head(rows).info)) + SumGroupSizes(Tail(rows))

\* The labels of the filtered rows of one anniversary count, in row order.
LabelsOfCount(years) ==
    LET members == SelectSeq(Filtered, LAMBDA r : r.years = years)
    IN  [k \in 1..Len(members) |-> members[k].info]

---------------------------------------------------------------------------
(* C1: every record of the filtered table process_data returns meets the   *)
(* three inclusion conditions for the reference month and has              *)
(* anniversaryCount = referenceYear - anchor year >= 1; a record whose     *)
(* anchor year is the reference year or later is never in the table.       *)
C1_FilteredMeetPredicate ==
    Returned =>
        \A k \in 1..Len(Filtered) :
            LET r == Filtered[k]
                src == Roster.rows[r.index]
            IN  /\ Included(src, selected_month)
                /\ r.years = Num(AnniversaryCount(src, selected_year))
                /\ AnniversaryCount(src, selected_year) >= 1

\* A table is returned with a record in it while a roster row that meets
\* the inclusion conditions has count 0 or less.
C1_Witness ==
    /\ Returned
    /\ Filtered # <<>>
    /\ \E i \in Passing(Roster, selected_month) :
           AnniversaryCount(Roster.rows[i], selected_year) <= 0

(* C2, as claimed: the excluded count plus the rows of the filtered table  *)
(* is the number of roster rows.                                           *)
C2_ExcludedPlusFilteredIsAll ==
    Returned =>
        session_state.special_exclusions
            = Some(Len(Roster.rows) - Len(Filtered))

(* C2, amended: the excluded count is the number of roster rows that fail  *)
(* the inclusion conditions; the filtered table holds, once each, the rows *)
(* that meet them and have a count of 1 or more; so the excluded count,    *)
(* the filtered rows and the rows dropped by the >= 1 cut add up to the    *)
(* roster.                                                                 *)
C2_ExcludedFilteredCutPartition ==
    Returned =>
        LET n == Len(Roster.rows)
            passing == Passing(Roster, selected_month)
            kept == Reportable(Roster, selected_year, selected_month)
        IN  /\ session_state.special_exclusions
                   = Some(n - Cardinality(passing))
            /\ FilteredIndexes = kept
            /\ Len(Filtered) = Cardinality(kept)
            /\ session_state.special_exclusions[1] + Len(Filtered)
                   + Cardinality(passing \ kept) = n

\* A run that excluded a row, kept a row and dropped a row by the cut.
C2_Witness ==
    /\ Returned
    /\ Filtered # <<>>
    /\ session_state.special_exclusions # None
    /\ session_state.special_exclusions[1] >= 1
    /\ Passing(Roster, selected_month)
           # Reportable(Roster, selected_year, selected_month)

(* C3: the summary has one row per distinct anniversary count of the       *)
(* filtered table; the joined-names cell of a row holds, in roster order   *)
(* and joined by the separator, the labels of exactly the filtered records *)
(* of that count; the group sizes add up to the filtered records.          *)
C3_SummaryPartitionsFiltered ==
    Returned =>
        /\ {Summary[g].years : g \in 1..Len(Summary)}
               = {Filtered[k].years : k \in 1..Len(Filtered)}
        /\ \A g, h \in 1..Len(Summary) :
               Summary[g].years = Summary[h].years => g = h
        /\ \A g \in 1..Len(Summary) :
               SplitCell(Summary[g].info) = LabelsOfCount(Summary[g].years)
        /\ SumGroupSizes(Summary) = Len(Filtered)

\* A summary of two rows, one of them joining two employees.
C3_Witness ==
    /\ Returned
    /\ Len(Summary) = 2
    /\ \E g \in 1..Len(Summary) : Len(SplitCell(Summary[g].info)) = 2

(* C4: the anchor date behind the month filter and the anniversary count   *)
(* is the tenure-start override when it is present and a date, the hire    *)
(* date otherwise: a roster row is in the filtered table exactly when its  *)
(* anchor meets the conditions, and with the count of its anchor.          *)
C4_AnchorIsOverrideElseHire ==
    Returned =>
        /\ \A i \in 1..Len(Roster.rows) :
               i \in FilteredIndexes
                   <=> i \in Reportable(Roster, selected_year, selected_month)
        /\ \A k \in 1..Len(Filtered) :
               LET r == Filtered[k]
                   a == AnchorCell(Roster.rows[r.index])
               IN  /\ r.anchor = Timestamp(a.year, a.month)
                   /\ r.month = Num(a.month)
                   /\ r.years = Num(selected_year - a.year)

\* Override 2023-03, hire date 2010-01, analysed for 2025-03: count 2.
C4_Witness ==
    /\ Returned
    /\ selected_year = 2025
    /\ selected_month = 3
    /\ \E k \in 1..Len(Filtered) :
           /\ Roster.rows[Filtered[k].index].tenure_start = DateCell(2023, 3)
           /\ Roster.rows[Filtered[k].index].hire_date = DateCell(2010, 1)
           /\ Filtered[k].years = Num(2)

\* The fields the claims take as required: those process_data checks and
\* the name and alias fields.
ClaimedRequired == required_columns \cup {"name", "alias"}

(* C5: a roster that lacks required fields (the checked ones, the name,    *)
(* the alias) makes process_data fail with the schema error that names     *)
(* exactly the missing fields.                                             *)
C5_SchemaErrorNamesMissing ==
    [][(ClaimedRequired \ Roster.cols) # {} =>
           /\ session_state'.filtered_df = None
           /\ session_state'.error_msg
                  = Some(SchemaError(ClaimedRequired \ Roster.cols))]_vars

(* C6: a hire date that does not parse, or is null, makes process_data     *)
(* fail with the data-format error.                                        *)
C6_BadOrNullHireDateFails ==
    [][(/\ required_columns \subseteq Roster.cols
        /\ \E i \in 1..Len(Roster.rows) :
               ~IsDate(Roster.rows[i].hire_date)) =>
           /\ session_state'.filtered_df = None
           /\ session_state'.error_msg = Some(DateParseError)]_vars

(* C7: when process_data fails, an error message is recorded and the       *)
(* excluded count and the mobility-alert list are as before the call.      *)
C7_FailureLeavesAdvisories ==
    [][session_state'.filtered_df = None =>
           /\ session_state'.result_df = None
           /\ session_state'.error_msg # None
           /\ session_state'.special_exclusions
                  = session_state.special_exclusions
           /\ session_state'.livewater_employees
                  = session_state.livewater_employees]_vars

\* A roster that passes validation: every claimed required field is there
\* and no hire date fails to parse.
PassesValidation(file) ==
    /\ ClaimedRequired \subseteq file.cols
    /\ ~process_dates_raises(file.rows)

Outputs(ss) ==
    <<ss.filtered_df, ss.result_df, ss.special_exclusions, ShownLivewater(ss)>>

\* The step is a click on the analyze button with a file uploaded.
AnalyzeStep ==
    /\ uploaded_file # None
    /\ session_state' = analyze(session_state, uploaded_file,
                                selected_year, selected_month)
    /\ UNCHANGED <<uploaded_file, selected_year, selected_month>>

(* C9: an analysis that returns tables reports what the same analysis      *)
(* reports in a fresh session, whatever was analysed before.               *)
C9_OutputIndependentOfHistory ==
    [][(AnalyzeStep /\ session_state'.filtered_df # None) =>
           Outputs(session_state')
               = Outputs(analyze(init_session, uploaded_file,
                                 selected_year, selected_month))]_vars

(* C10: the page shows an error message only if the most recent analyze    *)
(* click failed: right after a click that succeeded, no error is shown     *)
(* beside the result section.                                              *)
C10_NoErrorAfterSuccess ==
    [][(AnalyzeStep /\ session_state'.filtered_df # None) =>
           ~ShowError(session_state')]_vars

=============================================================================
